---- MODULE Spec2Model ----
(***************************************************************************)
(* The J.A.E.V.I.S. front end: one mounted Home view in one of two         *)
(* variants.                                                               *)
(*   Variant A (log-oriented)     src/unnamed/part_000                     *)
(*   Variant B (single-response)  src/src/app/page.tsx                     *)
(* The state is the view's React state (useState cells), the requests that *)
(* are in flight, the pending setTimeout timers and the position of the    *)
(* health-probe routine.  Every step is one event of the browser's event   *)
(* loop: a user event, a response that settles, a timer that fires, or one *)
(* second of time passing.                                                 *)
(***************************************************************************)
EXTENDS Naturals, Sequences, FiniteSets

VARIABLES
    variant,       \* "A" or "B": which of the two views is mounted
    phase,         \* "constructed", "mounted" or "unmounted"
    prompt,        \* useState('')            the textarea's text, a sequence of characters
    logs,          \* useState<Log[]>([])     (A) the displayed log list, a sequence of log ids
    expanded,      \* LogItem's useState(false), one cell per rendered item (keyed by log.id)
    lastResponse,  \* useState<AiOutputs|null>(null)  (B) None or Some(mapping)
    isLoading,     \* useState(false)
    error,         \* useState<string|null>(null)     None or Some(message)
    statuses,      \* useState({...: 'loading'})      service name -> ServiceStatus
    probeIdx,      \* checkServiceStatus: 0 not started, i the i-th probe is in flight, n+1 returned
    posts,         \* number of supervisor POSTs in flight
    timers,        \* pending setTimeout timers, oldest first: seconds left until each is due
    logFetches,    \* (A) log GETs in flight, in the order they were issued: who issued each
    sinceSuccess,  \* history: seconds since the POST of the submission in progress succeeded
                   \*          (capped at the delay; 0 when there is none)
    refetchCount   \* history: log fetches issued by timers for the submission in progress

vars == <<variant, phase, prompt, logs, expanded, lastResponse, isLoading, error,
          statuses, probeIdx, posts, timers, logFetches, sinceSuccess, refetchCount>>

\* The React state of the view (what the user can see), without the history variables.
viewState == <<prompt, logs, expanded, lastResponse, isLoading, error, statuses>>

\* Everything that is on its way: requests in flight and pending timers.
pending == <<probeIdx, posts, timers, logFetches>>

-----------------------------------------------------------------------------
(* Bounds of the model *)

\* The longest prompt the user types.
MaxPromptLen == 1

\* The monitor service holds at most MaxLogId log entries, with ids 1..MaxLogId.
MaxLogId == 1

\* How many refresh clicks may have their GET in flight at once.
MaxManualInFlight == 1

-----------------------------------------------------------------------------
(* Values *)

None == <<>>
Some(x) == <<x>>

Variants == {"A", "B"}

\* A blank and a non-blank character.
Chars == {" ", "a"}

RECURSIVE SeqsUpTo(_, _)
SeqsUpTo(S, n) ==
    IF n = 0 THEN {<<>>}
    ELSE LET shorter == SeqsUpTo(S, n - 1)
         IN  shorter \cup {Append(s, c) : s \in {t \in shorter : Len(t) = n - 1}, c \in S}

Prompts == SeqsUpTo(Chars, MaxPromptLen)

\* String.prototype.trim: strip the white space at both ends.
IsSpace(c) == c = " "

RECURSIVE TrimStart(_)
TrimStart(s) ==
    IF s # <<>> /\ IsSpace(Head(s)) THEN TrimStart(Tail(s)) ELSE s

RECURSIVE TrimEnd(_)
TrimEnd(s) ==
    IF s # <<>> /\ IsSpace(s[Len(s)]) THEN TrimEnd(SubSeq(s, 1, Len(s) - 1)) ELSE s

Trim(s) == TrimEnd(TrimStart(s))

-----------------------------------------------------------------------------
(* HTTP responses, as far as the code looks at them *)

\* response.status, kept as text because it is only ever put into a message.
OkStatuses == {"200"}
FailStatuses == {"404", "500"}

\* A response body: not JSON at all ("text"), the JSON value null, a JSON object
\* or a JSON array.  An object may carry an `error` member; `value` is what the
\* code keeps of it (the mapping as key/value pairs, or the array of log ids).
Body(json, err, value) == [json |-> json, error |-> err, value |-> value]
NoBody == Body("text", None, <<>>)

\* net = FALSE: fetch() rejected (DNS, connection, timeout); no response arrived.
Response(status, body) == [net |-> TRUE, status |-> status, body |-> body]
NetworkError == [net |-> FALSE, status |-> "-", body |-> NoBody]

\* Response.ok: the status is in the range 200-299.
Ok(r) == r.net /\ r.status \in OkStatuses

\* What the health endpoints answer (the body is never read).
ProbeResponses ==
    {Response(s, NoBody) : s \in OkStatuses \cup {"500"}} \cup {NetworkError}

\* The AiOutputs mappings the supervisor of variant B may return.
Mappings ==
    { <<>>,
      << <<"agent1", "done">> >>,
      << <<"agent1", "done">>, <<"agent2", "pending">> >> }

\* The error payloads the supervisor of variant B may send with a non-2xx status.
ErrorBodies ==
    { NoBody,
      Body("null", None, <<>>),
      Body("object", None, <<>>),
      Body("object", Some(""), <<>>),
      Body("object", Some("quota exceeded"), <<>>) }

\* What the supervisor may answer to the POST.  Variant A never reads the body.
PostResponses(v) ==
    IF v = "A"
    THEN {Response(s, NoBody) : s \in OkStatuses \cup FailStatuses} \cup {NetworkError}
    ELSE {Response(s, b) : s \in OkStatuses,
                          b \in {NoBody, Body("null", None, <<>>)}
                                \cup {Body("object", None, m) : m \in Mappings}}
         \cup {Response(s, b) : s \in FailStatuses, b \in ErrorBodies}
         \cup {NetworkError}

\* The log arrays the monitor may return: its n entries, newest (highest id) first.
Newest(n) == [i \in 1..n |-> n + 1 - i]

LogArrays == {Newest(n) : n \in 0..MaxLogId}

\* What the monitor may answer to GET /logs.
LogResponses ==
    {Response(s, Body("array", None, l)) : s \in OkStatuses, l \in LogArrays}
    \cup {Response(s, NoBody) : s \in OkStatuses \cup {"500"}}
    \cup {NetworkError}

\* The message of the TypeError fetch() rejects with, of the SyntaxError
\* Response.json() rejects with, and of the TypeError of reading a member of null.
NetErrMsg == "Failed to fetch"
SyntaxErrMsg == "Unexpected token in JSON"
NullErrMsg == "Cannot read properties of null (reading 'error')"

-----------------------------------------------------------------------------
(* The view *)

\* The dependencies checkServiceStatus probes, in the order of Object.entries.
Services(v) ==
    IF v = "A" THEN <<"supervisor", "orchestrator", "monitor">>
    ELSE <<"supervisor">>

ServiceNames(v) == {Services(v)[i] : i \in 1..Len(Services(v))}

\* The delay handed to setTimeout, in seconds.
RefetchDelay == 8

\* The state after construction: the initial values of the useState cells,
\* nothing requested yet (the mount effect has not run).
Init ==
    /\ variant \in Variants
    /\ phase = "constructed"
    /\ prompt = <<>>
    /\ logs = <<>>
    /\ expanded = [id \in {} |-> FALSE]
    /\ lastResponse = None
    /\ isLoading = FALSE
    /\ error = None
    /\ statuses = [s \in ServiceNames(variant) |-> "loading"]
    /\ probeIdx = 0
    /\ posts = 0
    /\ timers = <<>>
    /\ logFetches = <<>>
    /\ sinceSuccess = 0
    /\ refetchCount = 0

\* fetchLogs up to its first await: the GET is on its way.
IssueLogFetch(origin) == logFetches' = Append(logFetches, origin)

\* useEffect(() => { fetchLogs(); checkServiceStatus(); }, []): the log GET (A)
\* and the first health probe are issued.
Mount ==
    /\ phase = "constructed"
    /\ phase' = "mounted"
    /\ IF variant = "A" THEN IssueLogFetch("mount") ELSE UNCHANGED logFetches
    /\ probeIdx' = 1
    /\ UNCHANGED <<variant, viewState, posts, timers, sinceSuccess, refetchCount>>

\* The view is torn down.  Nothing is cancelled: no effect has a cleanup, the
\* timer is never cleared, no request is aborted.
Unmount ==
    /\ phase = "mounted"
    /\ phase' = "unmounted"
    /\ UNCHANGED <<variant, viewState, pending, sinceSuccess, refetchCount>>

\* response.ok ? 'ok' : 'error', and 'error' in the catch.
ProbeStatus(r) == IF Ok(r) THEN "ok" ELSE "error"

\* Mutant: the setter spreads the initial record instead of the previous one,
\* setStatuses({ ...initial, [name]: status }).
SetStatus_FromInitial(name, status) ==
    [s \in DOMAIN statuses |-> IF s = name THEN status ELSE "loading"]

\* The setStatuses call of a settled probe: A merges into the previous record,
\* B replaces the record.
SetStatus(name, status) ==
    IF variant = "A" THEN [statuses EXCEPT ![name] = status]
    ELSE [s \in {"supervisor"} |-> status]

\* Mutant: the routine probes the same service again (a retry, a re-poll).
NextProbe_Again(i) == i

\* What checkServiceStatus does once the probe in flight has settled: in A the
\* loop goes on to the next service and awaits its fetch; in B (and after the
\* last service in A) the routine returns.
NextProbe(i) == i + 1

\* The health probe in flight settles with response r.
ProbeSettle(r) ==
    /\ probeIdx \in 1..Len(Services(variant))
    /\ statuses' = SetStatus(Services(variant)[probeIdx], ProbeStatus(r))
    /\ probeIdx' = NextProbe(probeIdx)
    /\ UNCHANGED <<variant, phase, prompt, logs, expanded, lastResponse, isLoading,
                   error, posts, timers, logFetches, sinceSuccess, refetchCount>>

\* onChange of the textarea, which is disabled={isLoading}.
SetPrompt(p) ==
    /\ phase = "mounted"
    /\ ~isLoading
    /\ p # prompt
    /\ prompt' = p
    /\ UNCHANGED <<variant, phase, logs, expanded, lastResponse, isLoading, error,
                   statuses, pending, sinceSuccess, refetchCount>>

\* Mutant: the submit button is not disabled while loading.
SubmitEnabled_Always == TRUE

\* The submit button is disabled={isLoading}; the form has no other way to be
\* submitted (its only other control is the textarea).
SubmitEnabled == ~isLoading

\* Mutant: the test without trim(), if (!prompt) return;
IsBlank_NoTrim(p) == p = <<>>

\* if (!prompt.trim()) return;
IsBlank(p) == Trim(p) = <<>>

\* Mutant: a submission starts without setLastResponse(null).
ResponseAtSubmit_Keeps == lastResponse

\* setLastResponse(null) at the start of a submission: B only.
ResponseAtSubmit == IF variant = "B" THEN None ELSE lastResponse

\* handleSubmit up to its first await: the early return on a blank prompt, or
\* the three setters and the POST.
HandleSubmit ==
    /\ phase = "mounted"
    /\ SubmitEnabled
    /\ IF IsBlank(prompt)
       THEN UNCHANGED <<variant, phase, viewState, pending, sinceSuccess, refetchCount>>
       ELSE /\ isLoading' = TRUE
            /\ error' = None
            /\ lastResponse' = ResponseAtSubmit
            /\ posts' = posts + 1
            /\ refetchCount' = 0
            /\ UNCHANGED <<variant, phase, prompt, logs, expanded, statuses, probeIdx,
                           timers, logFetches, sinceSuccess>>

\* `Supervisor request failed with status ${response.status}` (A),
\* `Request failed with status ${response.status}` (B).
GenericMessage(v, r) ==
    IF v = "A" THEN "Supervisor request failed with status " \o r.status
    ELSE "Request failed with status " \o r.status

\* The message of the Error that reaches the catch of handleSubmit after a
\* non-2xx response.  A throws the generic message.  B reads the body first:
\* a body that is not JSON is replaced by { error: generic }; reading .error of
\* a JSON null throws a TypeError; a falsy .error falls back to the generic one.
NonOkMessage(v, r) ==
    IF v = "A" THEN GenericMessage(v, r)
    ELSE CASE r.body.json = "text" -> GenericMessage(v, r)
           [] r.body.json = "null" -> NullErrMsg
           [] OTHER -> IF r.body.error # None /\ r.body.error[1] # ""
                       THEN r.body.error[1]
                       ELSE GenericMessage(v, r)

\* Whether the try block of handleSubmit throws on response r: fetch rejected,
\* the response is not ok, or (B) the body of a 2xx response is not JSON.
PostThrows(v, r) ==
    \/ ~Ok(r)
    \/ v = "B" /\ r.body.json = "text"

\* The message handed to setError in the catch of handleSubmit.
PostErrorMessage(v, r) ==
    IF ~r.net THEN NetErrMsg
    ELSE IF ~Ok(r) THEN NonOkMessage(v, r)
    ELSE SyntaxErrMsg

\* Mutant: the success path clears the prompt but never calls setLastResponse(data).
DisplayedResponse_Stale(r) == lastResponse

\* setLastResponse(data) in B: data is what response.json() gave, null included.
DisplayedResponse(r) ==
    IF r.body.json = "object" THEN Some(r.body.value) ELSE None

\* Mutant: the catch of A sets the error but leaves the loading flag set.
LoadingAfterPost_CatchKeeps(v, r) == IF v = "A" THEN isLoading ELSE FALSE

\* The loading flag once the POST has settled with r: A leaves it set on
\* success (the timer's callback clears it) and clears it in the catch; B
\* clears it in the finally block.
LoadingAfterPost(v, r) ==
    IF v = "A" THEN (IF PostThrows(v, r) THEN FALSE ELSE isLoading)
    ELSE FALSE

\* setTimeout(..., 8000) after a successful POST in A.
TimersAfterPost(v, r) ==
    IF v = "A" /\ ~PostThrows(v, r) THEN Append(timers, RefetchDelay) ELSE timers

\* The supervisor POST settles with response r: the rest of handleSubmit.
PostSettle(r) ==
    /\ posts > 0
    /\ r \in PostResponses(variant)
    /\ posts' = posts - 1
    /\ isLoading' = LoadingAfterPost(variant, r)
    /\ timers' = TimersAfterPost(variant, r)
    /\ IF PostThrows(variant, r)
       THEN /\ error' = Some(PostErrorMessage(variant, r))
            /\ UNCHANGED <<prompt, lastResponse, sinceSuccess>>
       ELSE /\ sinceSuccess' = 0
            /\ IF variant = "B"
               THEN /\ lastResponse' = DisplayedResponse(r)
                    /\ prompt' = <<>>
               ELSE UNCHANGED <<prompt, lastResponse>>
            /\ UNCHANGED error
    /\ UNCHANGED <<variant, phase, logs, expanded, statuses, probeIdx, logFetches,
                   refetchCount>>

Min(a, b) == IF a < b THEN a ELSE b

\* One second passes while a timer is pending.
Tick ==
    /\ \E i \in 1..Len(timers) : timers[i] > 0
    /\ timers' = [i \in 1..Len(timers) |-> IF timers[i] > 0 THEN timers[i] - 1 ELSE 0]
    /\ sinceSuccess' = Min(sinceSuccess + 1, RefetchDelay)
    /\ UNCHANGED <<variant, phase, viewState, probeIdx, posts, logFetches, refetchCount>>

\* Mutant: the callback runs at once, setTimeout without its delay.
TimerDue_AtOnce(t) == TRUE

\* A timer may run its callback once its delay has elapsed.
TimerDue(t) == t = 0

\* The setTimeout callback: fetchLogs().finally(() => setIsLoading(false)), up
\* to the await inside fetchLogs.
TimerFire ==
    /\ timers # <<>>
    /\ TimerDue(Head(timers))
    /\ timers' = Tail(timers)
    /\ IssueLogFetch("delayed")
    /\ refetchCount' = refetchCount + 1
    /\ UNCHANGED <<variant, phase, viewState, probeIdx, posts, sinceSuccess>>

InFlight(origin) == Cardinality({i \in 1..Len(logFetches) : logFetches[i] = origin})

\* A click on the refresh button of LogViewer (never disabled): fetchLogs up to
\* its await.
Refresh ==
    /\ phase = "mounted"
    /\ variant = "A"
    /\ InFlight("manual") < MaxManualInFlight
    /\ IssueLogFetch("manual")
    /\ UNCHANGED <<variant, phase, viewState, probeIdx, posts, timers, sinceSuccess,
                   refetchCount>>

\* Whether fetchLogs throws on response r: fetch rejected, !response.ok, or the
\* body of a 2xx response is not JSON.
LogFetchThrows(r) == ~Ok(r) \/ r.body.json = "text"

\* The message handed to setError in the catch of fetchLogs.
LogErrorMessage(r) ==
    IF ~r.net THEN NetErrMsg
    ELSE IF ~Ok(r) THEN "Failed to fetch logs"
    ELSE SyntaxErrMsg

\* Mutant: the fetched entries are merged into the list already displayed.
LogsAfterFetch_Merge(old, data) ==
    LET Fresh(x) == \A j \in 1..Len(data) : data[j] # x
    IN  data \o SelectSeq(old, Fresh)

\* setLogs(data): the list after a successful fetch that returned `data`.
LogsAfterFetch(old, data) == data

\* The LogItem cells after the list became `list`: an item whose key (log.id)
\* was rendered before keeps its cell, a new one starts collapsed.
Reconcile(cells, list) ==
    [id \in {list[i] : i \in 1..Len(list)} |->
        IF id \in DOMAIN cells THEN cells[id] ELSE FALSE]

\* Mutant: the timer's callback calls fetchLogs() without the .finally that
\* clears the loading flag.
LoadingAfterLogFetch_Never(origin) == isLoading

\* Mutant: fetchLogs itself clears the loading flag when it is done.
LoadingAfterLogFetch_Every(origin) == FALSE

\* The loading flag once a log fetch issued by `origin` has settled: only the
\* timer's callback chains .finally(() => setIsLoading(false)).
LoadingAfterLogFetch(origin) == IF origin = "delayed" THEN FALSE ELSE isLoading

RemoveAt(s, i) == SubSeq(s, 1, i - 1) \o SubSeq(s, i + 1, Len(s))

\* Mutant: the catch of fetchLogs only logs the failure, without setError.
ErrorAfterLogFetch_Swallowed(r) == error

\* Mutant: a fetch that succeeds also clears the message, setError(null).
ErrorAfterLogFetch_ClearsOnSuccess(r) ==
    IF LogFetchThrows(r) THEN Some(LogErrorMessage(r)) ELSE None

\* The message after fetchLogs has run to its end on response r: its catch
\* calls setError(err.message), its try block never touches the message.
ErrorAfterLogFetch(r) ==
    IF LogFetchThrows(r) THEN Some(LogErrorMessage(r)) ELSE error

\* Mutant: the log GETs are answered in the order in which they were issued.
CanSettle_InOrder(i) == Len(logFetches) >= 1 /\ i = 1

\* Each call of fetchLogs issues its own GET and awaits it on its own: there
\* is no queue, no abort and no sequence number, so any GET in flight can be
\* the next one to settle.
CanSettle(i) == i \in 1..Len(logFetches)

\* The i-th log GET in flight settles with response r: the rest of fetchLogs,
\* and the .finally of the timer's callback.
LogFetchSettle(i, r) ==
    /\ CanSettle(i)
    /\ logFetches' = RemoveAt(logFetches, i)
    /\ isLoading' = LoadingAfterLogFetch(logFetches[i])
    /\ error' = ErrorAfterLogFetch(r)
    /\ IF LogFetchThrows(r)
       THEN UNCHANGED <<logs, expanded>>
       ELSE /\ logs' = LogsAfterFetch(logs, r.body.value)
            /\ expanded' = Reconcile(expanded, logs')
    /\ sinceSuccess' = IF isLoading' THEN sinceSuccess ELSE 0
    /\ refetchCount' = IF isLoading' THEN refetchCount ELSE 0
    /\ UNCHANGED <<variant, phase, prompt, lastResponse, statuses, probeIdx, posts, timers>>

\* Mutant: the button only ever opens the details, setIsExpanded(true).
Toggled_OpenOnly(isExpanded) == TRUE

\* setIsExpanded(!isExpanded)
Toggled(isExpanded) == ~isExpanded

\* A click on the details button of the LogItem with key id.
ToggleExpand(id) ==
    /\ phase = "mounted"
    /\ id \in DOMAIN expanded
    /\ expanded' = [expanded EXCEPT ![id] = Toggled(expanded[id])]
    /\ UNCHANGED <<variant, phase, prompt, logs, lastResponse, isLoading, error,
                   statuses, pending, sinceSuccess, refetchCount>>

Next ==
    \/ Mount
    \/ Unmount
    \/ \E r \in ProbeResponses : ProbeSettle(r)
    \/ \E p \in Prompts : SetPrompt(p)
    \/ HandleSubmit
    \/ \E r \in PostResponses(variant) : PostSettle(r)
    \/ Tick
    \/ TimerFire
    \/ Refresh
    \/ \E i \in 1..Len(logFetches), r \in LogResponses : LogFetchSettle(i, r)
    \/ \E id \in 1..MaxLogId : ToggleExpand(id)

Spec == Init /\ [][Next]_vars

\* What a submission needs of the event loop: its POST settles, time passes
\* while its timer is pending, the due timer fires, and the log GET the timer
\* issued settles.  Nothing is assumed of the probes or of the other log GETs.
Fairness ==
    /\ WF_vars(\E r \in PostResponses(variant) : PostSettle(r))
    /\ WF_vars(Tick)
    /\ WF_vars(TimerFire)
    /\ WF_vars(\E i \in 1..Len(logFetches), r \in LogResponses :
                 logFetches[i] = "delayed" /\ LogFetchSettle(i, r))

FairSpec == Spec /\ Fairness

-----------------------------------------------------------------------------
(* Vocabulary of the properties *)

\* A prompt that is empty or consists only of white space.
WhitespaceOnly(p) == \A i \in 1..Len(p) : p[i] = " "

\* A POST that failed: a network error or a non-2xx status.
PostFailed(r) == ~r.net \/ r.status \in FailStatuses

\* A POST answered 2xx with a body that parses as a JSON mapping.
PostReturnedMapping(r) == r.net /\ r.status = "200" /\ r.body.json = "object"

\* An error message is on display.
ErrorDisplayed == error # None /\ error[1] # ""

-----------------------------------------------------------------------------
(* Properties *)

\* C1: in both variants, a submit event on a prompt that is empty or only
\* white space issues no request and changes no state variable: prompt, loading
\* flag, error, result / log list, item cells and service statuses stay as they
\* are, and nothing is added to what is in flight.
C1_BlankSubmitChangesNothing ==
    [][(WhitespaceOnly(prompt) /\ HandleSubmit) => UNCHANGED <<viewState, pending>>]_vars

\* A white-space prompt is in the textarea of a mounted, idle view that shows an
\* error (which an accepted submit would clear): the submit button is live.
C1_Witness ==
    /\ phase = "mounted"
    /\ ENABLED HandleSubmit
    /\ prompt # <<>>
    /\ WhitespaceOnly(prompt)
    /\ ErrorDisplayed

\* C2: in both variants, when the supervisor POST fails (non-2xx or network
\* error), the state in which that submission finishes shows a non-empty error
\* message and has the loading flag cleared, so the submit button is enabled.
C2_FailedPostShowsError ==
    [][\A r \in PostResponses(variant) :
          (PostSettle(r) /\ PostFailed(r)) =>
              (error' # None /\ error'[1] # "" /\ ~isLoading' /\ SubmitEnabled')]_vars

\* A submission has just failed with HTTP 500: its message is on display and
\* the view is idle again.
C2_Witness ==
    /\ error = Some(GenericMessage(variant, Response("500", NoBody)))
    /\ ~isLoading
    /\ posts = 0
    /\ Trim(prompt) # <<>>

\* C3: in variant B, when the POST returns 2xx with a JSON mapping, the state
\* in which the submission finishes displays exactly that mapping and has an
\* empty prompt.
C3_SuccessDisplaysMapping ==
    [][\A r \in PostResponses(variant) :
          (variant = "B" /\ PostSettle(r) /\ PostReturnedMapping(r)) =>
              (lastResponse' = Some(r.body.value) /\ prompt' = <<>>)]_vars

\* Variant B displays the two-entry mapping of a finished submission.
C3_Witness ==
    /\ variant = "B"
    /\ lastResponse = Some(<< <<"agent1", "done">>, <<"agent2", "pending">> >>)
    /\ prompt = <<>>
    /\ ~isLoading
    /\ error = None

\* The probe of the i-th service has settled.
ProbeSettled(i) == probeIdx > i

\* C4: whatever the probes answer, the probe that settles sets its own
\* service's indicator to ok if it returned 2xx and to error otherwise and
\* leaves every other indicator as it was; an indicator is loading exactly
\* until its own probe has settled, so that none is loading once all have.
C4_ProbeOutcomes ==
    /\ [](\A i \in 1..Len(Services(variant)) :
             ProbeSettled(i) <=> statuses[Services(variant)[i]] # "loading")
    /\ [][\A r \in ProbeResponses :
             ProbeSettle(r) =>
                 \A s \in ServiceNames(variant) :
                     statuses'[s] =
                         IF s # Services(variant)[probeIdx] THEN statuses[s]
                         ELSE IF r.net /\ r.status = "200" THEN "ok" ELSE "error"]_vars

\* Variant A after all three probes: 200, network error, 200.
C4_Witness ==
    /\ variant = "A"
    /\ probeIdx = Len(Services(variant)) + 1
    /\ statuses = [s \in ServiceNames("A") |-> IF s = "orchestrator" THEN "error" ELSE "ok"]

\* Variant A is past a successful POST: the flag is set and no POST is out.
AfterSuccess == variant = "A" /\ isLoading /\ posts = 0

\* This step issues a log GET.
LogFetchIssued == Len(logFetches') > Len(logFetches)

\* This step issues the log GET of the submission flow (the timer's callback).
DelayedFetchIssued == InFlight("delayed")' > InFlight("delayed")

\* C5 as stated, its first half: in variant A, after a successful POST no log
\* GET is issued before 8 seconds have passed since the success.
C5_AsStated ==
    [][(AfterSuccess /\ sinceSuccess < RefetchDelay) => ~LogFetchIssued]_vars

\* C5, amended: in variant A the submission flow itself issues no log GET
\* before 8 seconds have passed since the successful POST and issues exactly
\* one at or after them (one by the time the submission finishes, never two);
\* a log GET issued earlier in that interval is the refresh button's.
C5_FlowRefetchesOnceAfterDelay ==
    /\ [](refetchCount <= 1)
    /\ [](AfterSuccess /\ timers = <<>> => refetchCount = 1)
    /\ [][DelayedFetchIssued =>
             (AfterSuccess /\ sinceSuccess >= RefetchDelay /\ refetchCount' = 1)]_vars
    /\ [][(AfterSuccess /\ sinceSuccess < RefetchDelay /\ LogFetchIssued) =>
             logFetches' = Append(logFetches, "manual")]_vars
    /\ [][(AfterSuccess /\ ~isLoading') => refetchCount = 1]_vars

\* The timer of a successful submission has fired after its 8 seconds and the
\* flow's one log GET is in flight.
C5_Witness ==
    /\ AfterSuccess
    /\ sinceSuccess = RefetchDelay
    /\ refetchCount = 1
    /\ timers = <<>>
    /\ InFlight("delayed") = 1

\* C6: for every log item, collapsed or expanded, a toggle flips exactly that
\* item's cell, so that the next toggle of the same item gives back the
\* original cells; a toggle issues no request and changes nothing else.
C6_ToggleTwiceRestores ==
    [][\A id \in 1..MaxLogId :
          ToggleExpand(id) =>
              /\ id \in DOMAIN expanded'
              /\ expanded'[id] # expanded[id]
              /\ [expanded' EXCEPT ![id] = Toggled(expanded'[id])] = expanded
              /\ UNCHANGED <<prompt, logs, lastResponse, isLoading, error, statuses, pending>>]_vars

\* A listed item has been expanded while a log GET is in flight.
C6_Witness ==
    /\ logs # <<>>
    /\ expanded[logs[1]]
    /\ logFetches # <<>>

\* C7: in both variants at most one supervisor POST is in flight and at
\* most one timer is pending; the loading flag is set while a POST is out and
\* (A) while the timer is pending; a submission starts only with the flag clear.
C7_OneSubmissionAtATime ==
    /\ [](posts <= 1 /\ Len(timers) <= 1 /\ posts + Len(timers) <= 1)
    /\ []((posts > 0 \/ timers # <<>>) => isLoading)
    /\ [][posts' > posts => (~isLoading /\ isLoading')]_vars

\* A POST is out while an earlier log GET is still in flight.
C7_Witness ==
    /\ posts = 1
    /\ isLoading
    /\ logFetches # <<>>

\* C8: in both variants every submission that was started returns to idle,
\* whatever its requests answer, provided they settle and the timer fires.
C8_SubmissionReturnsToIdle == isLoading ~> ~isLoading

\* A submission of variant A is in its last leg: the POST succeeded, the timer
\* fired and the delayed re-fetch is in flight behind a refresh's GET.
C8_Witness ==
    /\ variant = "A"
    /\ isLoading
    /\ posts = 0
    /\ logFetches = <<"manual", "delayed">>

\* C9: in variant A, from a successful POST on the loading flag stays set
\* through the wait and until the delayed re-fetch settles: it is set while the
\* timer is pending or that re-fetch is in flight, and the only step that
\* clears it is the one in which the delayed re-fetch settles, not a refresh's
\* or the mount's log GET settling.
C9_LoadingUntilDelayedRefetchSettles ==
    /\ [](variant = "A" /\ (timers # <<>> \/ InFlight("delayed") > 0) => isLoading)
    /\ [][(AfterSuccess /\ ~isLoading') =>
             (timers = <<>> /\ InFlight("delayed")' < InFlight("delayed"))]_vars

\* During the wait a log GET of the mount or of a refresh has failed (the
\* error was cleared at submit), and the flag is still set.
C9_Witness ==
    /\ AfterSuccess
    /\ timers # <<>>
    /\ error = Some("Failed to fetch logs")
    /\ logFetches = <<>>

\* The probe of the i-th service has been issued and has not settled.
ProbeInFlight(i) == probeIdx = i

\* C10: the probes are independent: once the view is mounted, one GET per
\* dependency has been issued without waiting for another probe, so every
\* indicator that is still loading has its own probe in flight.
C10_ProbesIssuedTogether ==
    phase # "constructed" =>
        \A i \in 1..Len(Services(variant)) :
            statuses[Services(variant)[i]] = "loading" => ProbeInFlight(i)

\* This step is a health probe settling.
ProbeSettles == probeIdx \in 1..Len(Services(variant)) /\ probeIdx' = probeIdx + 1

\* C11: every indicator starts as loading and changes once per page load: it
\* leaves loading in the step in which its own probe settles and never changes
\* afterwards; the probes are issued one after the other from the mount on,
\* each once, and no other step (submit, refresh, a timer) issues one.
C11_StatusSetOnce ==
    /\ \A s \in ServiceNames(variant) : statuses[s] = "loading"
    /\ [][\A s \in ServiceNames(variant) :
             /\ statuses[s] # "loading" => statuses'[s] = statuses[s]
             /\ statuses'[s] # statuses[s] =>
                   (ProbeSettles /\ s = Services(variant)[probeIdx])]_vars
    /\ [][probeIdx' # probeIdx =>
             /\ probeIdx' = probeIdx + 1
             /\ phase = "constructed" \/ ProbeSettles
             /\ UNCHANGED <<posts, timers>>
             /\ phase # "constructed" => UNCHANGED logFetches]_vars

\* All probes of variant A have settled, one with an error that is still shown
\* after a submit and a refresh click.
C11_Witness ==
    /\ variant = "A"
    /\ probeIdx = Len(Services(variant)) + 1
    /\ statuses["supervisor"] = "error"
    /\ posts = 1
    /\ InFlight("manual") = 1

\* This step is the delayed re-fetch's GET settling.
DelayedFetchSettles == InFlight("delayed")' < InFlight("delayed")

\* C12: once variant A's view is torn down, the pending 8-second timer issues
\* no log fetch, and no re-fetch of that timer changes the list, the error or
\* the loading flag.
C12_TimerAbandonedOnUnmount ==
    [][(variant = "A" /\ phase = "unmounted") =>
         /\ ~DelayedFetchIssued
         /\ DelayedFetchSettles => UNCHANGED <<logs, error, isLoading>>]_vars

\* The response of a log GET is a JSON array.
ReturnedArray(r) == r.net /\ r.status \in OkStatuses /\ r.body.json = "array"

\* C13: in variant A a log fetch that returns an array leaves exactly that
\* array as the list, whatever was displayed before, and the list changes in
\* no step other than a log fetch settling.
C13_ListReplacedByFetch ==
    /\ [][\A i \in 1..Len(logFetches) : \A r \in LogResponses :
             (LogFetchSettle(i, r) /\ ReturnedArray(r)) => logs' = r.body.value]_vars
    /\ [][logs' # logs =>
             /\ variant = "A"
             /\ Len(logFetches') = Len(logFetches) - 1
             /\ UNCHANGED <<prompt, lastResponse, statuses, probeIdx, posts, timers>>]_vars

\* A fetched list is displayed and every log GET has settled.
C13_Witness ==
    /\ variant = "A"
    /\ logs = Newest(MaxLogId)
    /\ logFetches = <<>>
    /\ error = None
    /\ ~isLoading

\* A log GET that failed: no response at all, or a non-2xx one.
LogFetchFailed(r) == ~r.net \/ r.status \in FailStatuses

\* C14 as stated: in variant A a failing log fetch, whatever issued it, shows
\* an error message, leaves the list as it was and leaves the view idle.
C14_AsStated ==
    [][\A i \in 1..Len(logFetches) : \A r \in LogResponses :
         (LogFetchSettle(i, r) /\ LogFetchFailed(r)) =>
            (ErrorDisplayed' /\ logs' = logs /\ ~isLoading')]_vars

\* C14: in variant A a failing log fetch, whatever issued it, shows an error
\* message and leaves the list and the open details as they were; the failure
\* of the delayed re-fetch returns the view to idle, and the failure of a
\* mount or refresh fetch leaves the loading flag as it was: idle, unless a
\* submission is in progress.
C14_FailedFetchShowsErrorKeepsList ==
    [][\A i \in 1..Len(logFetches) : \A r \in LogResponses :
         (LogFetchSettle(i, r) /\ LogFetchFailed(r)) =>
            /\ ErrorDisplayed'
            /\ logs' = logs /\ expanded' = expanded
            /\ logFetches[i] = "delayed" => ~isLoading'
            /\ logFetches[i] # "delayed" => isLoading' = isLoading]_vars

\* A log GET has failed while a fetched list was on display: the message is
\* shown above the list, and the view is idle.
C14_Witness ==
    /\ variant = "A"
    /\ error = Some("Failed to fetch logs")
    /\ logs # <<>>
    /\ ~isLoading
    /\ posts = 0 /\ timers = <<>> /\ logFetches = <<>>

\* A result is on display (ResponseViewer renders nothing for null).
ResultDisplayed == lastResponse # None

\* C15: in variant B the result is cleared when a submission starts and set
\* only when a submission succeeds: no result is shown while a POST is in
\* flight or after a failed submission, and an error and a result are never on
\* display together.
C15_ResultOnlyAfterSuccess ==
    /\ [](variant = "B" =>
            /\ (isLoading \/ posts > 0) => ~ResultDisplayed
            /\ ~(ErrorDisplayed /\ ResultDisplayed))
    /\ [][variant = "B" =>
            /\ posts' > posts => ~ResultDisplayed'
            /\ (\A r \in PostResponses("B") :
                   (PostSettle(r) /\ (PostFailed(r) \/ ErrorDisplayed')) => ~ResultDisplayed')
            /\ (ResultDisplayed' /\ lastResponse' # lastResponse) =>
                   (\E r \in PostResponses("B") :
                       PostSettle(r) /\ PostReturnedMapping(r)
                                     /\ lastResponse' = Some(r.body.value))]_vars

\* A submission of variant B has failed: the message is shown, no result is.
C15_Witness ==
    /\ variant = "B"
    /\ ErrorDisplayed
    /\ ~ResultDisplayed
    /\ ~isLoading
    /\ posts = 0
    /\ prompt # <<>>

\* This step is the user typing into the prompt field.
UserTypes == \E p \in Prompts : SetPrompt(p)

\* C16: no step of the submission flow changes the prompt, except the success
\* of variant B, which empties it together with putting a result on display;
\* every failure path of B and every path of A leaves the prompt as it is.
C16_PromptClearedOnlyWithResult ==
    [][~UserTypes =>
         \/ prompt' = prompt
         \/ /\ variant = "B"
            /\ prompt' = <<>>
            /\ ResultDisplayed'
            /\ \E r \in PostResponses("B") :
                   PostSettle(r) /\ ~PostFailed(r) /\ r.body.json # "text"]_vars

\* The message the claim C17 expects after the non-2xx response r.
ExpectedNonOkMessage(v, r) ==
    IF v = "A" THEN "Supervisor request failed with status " \o r.status
    ELSE IF r.body.json # "text" /\ r.body.error # None /\ r.body.error[1] # ""
         THEN r.body.error[1]
         ELSE "Request failed with status " \o r.status

\* C17: after a non-2xx answer with status N, variant B shows the `error`
\* field of the body when the body is JSON and the field is not empty, and
\* "Request failed with status N" otherwise; variant A always shows
\* "Supervisor request failed with status N".
C17_NonOkMessage ==
    [][\A r \in PostResponses(variant) :
         (PostSettle(r) /\ r.net /\ r.status \in FailStatuses) =>
            error' = Some(ExpectedNonOkMessage(variant, r))]_vars

\* C18: variant A's log GETs settle in any order: whichever GET is in flight,
\* first-issued or last-issued, can be the next to settle, with any response;
\* the GET that settles decides the list (its array when it returned one, the
\* list as it was when it failed) while the others stay in flight.  The list
\* shown once all have settled is therefore the array of the last successful
\* completion, not of the last request issued.
C18_LastCompletionWins ==
    /\ [](\A i \in 1..Len(logFetches) : \A r \in LogResponses :
             ENABLED LogFetchSettle(i, r))
    /\ [][\A i \in 1..Len(logFetches) : \A r \in LogResponses :
             LogFetchSettle(i, r) =>
                /\ logs' = IF ReturnedArray(r) THEN r.body.value ELSE logs
                /\ logFetches' = RemoveAt(logFetches, i)]_vars

\* The mount's GET, issued first, is still in flight while a GET issued after
\* it has settled and filled the list: the mount's response, arriving last,
\* will replace that list.
C18_Witness ==
    /\ variant = "A"
    /\ phase = "mounted"
    /\ logFetches = <<"mount">>
    /\ logs # <<>>

====
